---- MODULE Spec2Model ----
(***************************************************************************)
(* A model of git-lint's linter invocation, output cache and result merge  *)
(* (gitlint/linters.py, gitlint/utils.py).                                 *)
(*                                                                         *)
(* Text is a sequence of tokens.  A token is a line feed, a carriage       *)
(* return, an ordinary character, or a "head": the prefix a linter prints  *)
(* in front of a finding (file name, line, column, severity, message id).  *)
(* Strings that the code concatenates or splits (program names, arguments, *)
(* file names) are sequences of one-character strings.                     *)
(***************************************************************************)
EXTENDS Integers, Sequences, FiniteSets

VARIABLES
    clock,      \* the file system's current time stamp
    srcMtime,   \* os.path.getmtime(filename) of every source file
    cache,      \* the files under ~/.git-lint/cache: cache file name -> entry
    config,     \* the ConfigMap parse_yaml_config returned
    last,       \* what the most recent call of lint did and returned
    untouched,  \* history: the cache files written since their source file
                \* was last modified
    lastPath,   \* history: cache file -> how the latest lint_command for it
                \* returned
    procs,      \* concurrent lint_command processes: their position and locals
    call        \* the most recent call of a library function on its own:
                \* the function, its arguments and its value

vars == <<clock, srcMtime, cache, config, last, untouched, lastPath, procs,
          call>>

\* No library function was called on its own.
NotCalled == [op |-> "none"]

-----------------------------------------------------------------------------
(* Bounds of the model. *)

MaxClock == 2

-----------------------------------------------------------------------------
(* Tokens and texts. *)

LF == [k |-> "lf"]
CR == [k |-> "cr"]
Ch(c) == [k |-> "ch", c |-> c]

\* The prefix of a finding, "<file>:L<line>:C<column>: [<severity>] (<id>) ",
\* each part but the file name optional.  line and column are digit strings
\* (sequences of digits), severity is a sequence of letters, message_id a
\* string; a part the linter did not print is <<>> (message_id: "").
Prefix(l, c, s, i) ==
    [k |-> "head", line |-> l, column |-> c, severity |-> s, message_id |-> i]

\* What the external linters of the model can print.
OutClean == <<Prefix(<<3>>, <<7>>, <<"e", "r">>, "E1"), Ch("a"), LF,
              Prefix(<<1>>, <<>>, <<>>, ""), Ch("b"), LF>>
OutCrLf  == <<Prefix(<<1>>, <<2>>, <<"W", "a">>, ""), Ch("a"), CR, LF>>
OutNoise == <<Ch("x"), LF, Prefix(<<>>, <<>>, <<>>, "W2"), Ch("c")>>
OutEmpty == <<>>

Outputs == {OutEmpty, OutClean, OutCrLf, OutNoise}

-----------------------------------------------------------------------------
(* Conversions between numbers and their decimal strings. *)

\* int(s) of a digit string.
RECURSIVE int(_)
int(s) == IF s = <<>> THEN 0 ELSE 10 * int(SubSeq(s, 1, Len(s) - 1)) + s[Len(s)]

\* str(n) of a natural number.
RECURSIVE str(_)
str(n) == IF n < 10 THEN <<n>> ELSE str(n \div 10) \o <<n % 10>>

Upper(c) == CASE c = "e" -> "E" [] c = "r" -> "R" [] c = "w" -> "W"
              [] c = "a" -> "A" [] OTHER -> c
Lower(c) == CASE c = "E" -> "e" [] c = "R" -> "r" [] c = "W" -> "w"
              [] c = "A" -> "a" [] OTHER -> c

\* str.title() of a word: first letter upper case, the others lower case.
title(w) == [i \in 1..Len(w) |-> IF i = 1 THEN Upper(w[i]) ELSE Lower(w[i])]

-----------------------------------------------------------------------------
(* Text files: io.open in text mode with the default newline=None. *)

\* os.linesep of the platform (POSIX).
linesep == <<LF>>

\* f.write(output): every "\n" is written as os.linesep.
RECURSIVE WriteText(_)
WriteText(t) ==
    IF t = <<>> THEN <<>>
    ELSE (IF t[1].k = "lf" THEN linesep ELSE <<t[1]>>) \o WriteText(Tail(t))

\* f.read(): universal newlines, "\r\n" and a lone "\r" are read as "\n".
RECURSIVE ReadText(_)
ReadText(t) ==
    IF t = <<>> THEN <<>>
    ELSE IF t[1].k = "cr"
         THEN IF Len(t) >= 2 /\ t[2].k = "lf"
              THEN <<LF>> \o ReadText(SubSeq(t, 3, Len(t)))
              ELSE <<LF>> \o ReadText(Tail(t))
         ELSE <<t[1]>> \o ReadText(Tail(t))

\* output.split(os.linesep): the pieces between the separators, always at
\* least one piece.
RECURSIVE SplitLines(_)
SplitLines(t) ==
    IF \A i \in 1..Len(t) : t[i].k # "lf" THEN <<t>>
    ELSE LET i == CHOOSE j \in 1..Len(t) :
                      t[j].k = "lf" /\ \A h \in 1..(j - 1) : t[h].k # "lf"
         IN <<SubSeq(t, 1, i - 1)>> \o SplitLines(SubSeq(t, i + 1, Len(t)))

-----------------------------------------------------------------------------
(* The output parser: utils.filter_lines and the second half of            *)
(* lint_command.  The filter of the model's linters is                     *)
(*   {filename}:(L(?P<line>{lines}):)?(C(?P<column>\d+):)?                  *)
(*             ( \[(?P<severity>\w+)\])?( \((?P<message_id>\w+)\))?        *)
(*             (?P<message>.+)                                             *)
(* A head token is the text its first five parts match.                    *)

\* The lines argument of lint and lint_command: None, or a list of numbers.
NoLines == [none |-> TRUE, list |-> <<>>]
Only(l) == [none |-> FALSE, list |-> l]

\* lines_regex: "\d+" for None, else the alternation of str(l).
LinesRegex(lines) ==
    [digits |-> lines.none,
     alts   |-> {str(lines.list[i]) : i \in 1..Len(lines.list)}]

\* Whether the head's line part (if printed) matches "L({lines}):".
HeadMatches(h, lines) ==
    \/ h.line = <<>>
    \/ LinesRegex(lines).digits
    \/ h.line \in LinesRegex(lines).alts

\* pattern.search(line): the first position where the pattern matches, 0
\* if none.  The message group ".+" needs one character at least and takes
\* the rest of the line ("." matches a carriage return).
SearchLine(line, lines) ==
    LET hits == {i \in 1..Len(line) :
                    /\ line[i].k = "head"
                    /\ HeadMatches(line[i], lines)
                    /\ i < Len(line)}
    IN IF hits = {} THEN 0
       ELSE CHOOSE i \in hits : \A j \in hits : i <= j

groups == <<"line", "column", "message", "severity", "message_id">>

\* The value of a named group of a match at position i, and whether the
\* group took part in the match (match.groupdict() gives None if not).
GroupMatched(line, i, g) ==
    CASE g = "line"       -> line[i].line # <<>>
      [] g = "column"     -> line[i].column # <<>>
      [] g = "message"    -> TRUE
      [] g = "severity"   -> line[i].severity # <<>>
      [] g = "message_id" -> line[i].message_id # ""

\* Mutant of CommentOf: a group that did not match is stored with an empty
\* value.
CommentOf_AllGroups(line, i) ==
    [g \in {groups[n] : n \in 1..Len(groups)} |->
        CASE g = "line"       -> int(line[i].line)
          [] g = "column"     -> int(line[i].column)
          [] g = "message"    -> SubSeq(line, i + 1, Len(line))
          [] g = "severity"   -> title(line[i].severity)
          [] g = "message_id" -> line[i].message_id]

\* One comment: the groups that matched, line and column converted with
\* int(), severity with title().
CommentOf(line, i) ==
    [g \in {groups[n] : n \in {m \in 1..Len(groups) : GroupMatched(line, i, groups[m])}} |->
        CASE g = "line"       -> int(line[i].line)
          [] g = "column"     -> int(line[i].column)
          [] g = "message"    -> SubSeq(line, i + 1, Len(line))
          [] g = "severity"   -> title(line[i].severity)
          [] g = "message_id" -> line[i].message_id]

\* filter_lines and the loop over filtered_lines: one comment per matching
\* line, in the order of the lines.
RECURSIVE filter_lines(_, _)
filter_lines(output_lines, lines) ==
    IF output_lines = <<>> THEN <<>>
    ELSE LET line == output_lines[1]
             i    == SearchLine(line, lines)
         IN (IF i = 0 THEN <<>> ELSE <<CommentOf(line, i)>>)
            \o filter_lines(Tail(output_lines), lines)

\* lint_command from "output_lines = output.split(os.linesep)" on.
ParseOutput(output, lines) == filter_lines(SplitLines(output), lines)

-----------------------------------------------------------------------------
(* The output cache: utils.calculate_hash, _get_cache_filename,            *)
(* get_output_from_cache, save_output_in_cache.                            *)

\* The characters calculate_hash feeds to sha256: the program, then "|" and
\* the argument for every argument.  sha256 is taken to be injective, so the
\* digest is identified with what was fed.
RECURSIVE HashInput(_, _)
HashInput(program, arguments) ==
    IF arguments = <<>> THEN program
    ELSE HashInput(program \o <<"|">> \o arguments[1], Tail(arguments))

calculate_hash(program, arguments) == HashInput(program, arguments)

\* The working directory of the process.
cwd == <<"/", "w">>

abspath(filename) ==
    IF filename # <<>> /\ filename[1] = "/" THEN filename
    ELSE cwd \o <<"/">> \o filename

\* ~/.git-lint/cache/<name>.<hash>/<absolute file name without its first "/">
get_cache_filename(name, linter_hash, filename) ==
    <<name, linter_hash, Tail(abspath(filename))>>

\* The value None of get_output_from_cache, and a text it returns.
None == [none |-> TRUE, text |-> <<>>]
Some(t) == [none |-> FALSE, text |-> t]

\* Mutant of CacheValid: "not later" instead of "earlier".
CacheValid_NotAfter(files, mtimes, cache_filename, filename) ==
    /\ cache_filename \in DOMAIN files
    /\ mtimes[filename] <= files[cache_filename].mtime

\* The test of get_output_from_cache on the file system (files, mtimes).
CacheValid(files, mtimes, cache_filename, filename) ==
    /\ cache_filename \in DOMAIN files
    /\ mtimes[filename] < files[cache_filename].mtime

get_output_from_cache(files, mtimes, name, linter_hash, filename) ==
    LET cache_filename == get_cache_filename(name, linter_hash, filename)
    IN IF CacheValid(files, mtimes, cache_filename, filename)
       THEN Some(ReadText(files[cache_filename].text))
       ELSE None

\* _open_for_write: io.open(filename, 'w') creates the file or truncates it;
\* either way the file is empty and carries the time of the call.
open_for_write(files, now, cache_filename) ==
    [c \in DOMAIN files \cup {cache_filename} |->
        IF c = cache_filename THEN [text |-> <<>>, mtime |-> now] ELSE files[c]]

\* f.write(output) and the end of the "with" block.  The text is buffered and
\* goes to the file in one write when the file is closed: at the position of
\* this file object, which is 0, over what the file holds at that time.  An
\* empty text is no write at all.
WriteAndClose(files, now, cache_filename, output) ==
    LET data == WriteText(output)
        held == files[cache_filename].text
    IN IF data = <<>> THEN files
       ELSE [files EXCEPT ![cache_filename] =
                [text  |-> data \o SubSeq(held, Len(data) + 1, Len(held)),
                 mtime |-> now]]

\* save_output_in_cache when no other process touches the file between the
\* open and the close: the file holds the output and carries the time of the
\* write.
save_output_in_cache(files, now, name, linter_hash, filename, output) ==
    LET cache_filename == get_cache_filename(name, linter_hash, filename)
    IN WriteAndClose(open_for_write(files, now, cache_filename), now,
                     cache_filename, output)

-----------------------------------------------------------------------------
(* Linter bindings: linters.missing_requirements_command and lint_command. *)

\* A dict with one key.
Dict1(key, value) == [x \in {key} |-> value]

\* What running "program arguments... filename" can do: exit with a code and
\* an output, or fail to start (OSError).  Program p prints any output of
\* the model and exits with 0, 1 or 2; q and r print and exit with less.
OutputsOf(program) ==
    CASE program = <<"q">> -> {OutClean, OutNoise}
      [] program = <<"r">> -> {OutClean, OutCrLf}
      [] OTHER             -> Outputs

ExitCodesOf(program) ==
    CASE program = <<"q">> -> {0, 2}
      [] program = <<"r">> -> {0, 1}
      [] OTHER             -> {0, 1, 2}

ProcOutcomes(program) ==
    [kind : {"exit"}, code : ExitCodesOf(program), output : OutputsOf(program)]
        \cup {[kind |-> "oserror", code |-> 0, output |-> <<>>]}

InList(x, list) == \E i \in 1..Len(list) : list[i] = x

\* Mutant of missing_requirements_command: the missing programs are reported
\* as an error.
missing_requirements_command_AsError(missing_programs, installation_string, filename, unused_lines) ==
    Dict1(filename,
          Dict1("error",
                <<[programs |-> missing_programs,
                   verb |-> IF Len(missing_programs) > 1 THEN "are" ELSE "is",
                   installation |-> installation_string]>>))

\* The entry of a 'skipped' list missing_requirements_command builds:
\* "<programs joined by ', '> is|are not installed. <installation_string>".
missing_requirements_command(missing_programs, installation_string, filename, unused_lines) ==
    LET verb == IF Len(missing_programs) > 1 THEN "are" ELSE "is"
    IN Dict1(filename,
             Dict1("skipped",
                   <<[programs |-> missing_programs, verb |-> verb,
                      installation |-> installation_string]>>))

\* Mutant of IsFatal: every exit code but 0 is fatal.
IsFatal_AnyNonzero(proc, fatal_exits) ==
    proc.kind = "exit" /\ proc.code # 0

\* "except subprocess.CalledProcessError": check_output raises it for every
\* exit code but 0; the error is fatal when the code is in fatal_exits.
IsFatal(proc, fatal_exits) ==
    proc.kind = "exit" /\ proc.code # 0 /\ InList(proc.code, fatal_exits)

\* What the process of a call did when the call did not run one.
NotRun == [kind |-> "not_run", code |-> 0, output |-> <<>>]

\* The four ways lint_command returns.  Each gives the value returned, the
\* file system afterwards, whether check_output was called, what the process
\* did and which return statement was reached.

\* The cache held a valid text: it is parsed, no process is run.
CachedReturn(filename, lines, output, files) ==
    [result   |-> Dict1(filename, Dict1("comments", ParseOutput(output, lines))),
     files    |-> files,
     launched |-> FALSE,
     proc     |-> NotRun,
     path     |-> "cached"]

\* Mutant of OSErrorReturn: the failure also counts as an empty output.
OSErrorReturn_Comments(call_arguments, filename, proc, files) ==
    [result   |-> Dict1(filename,
                        [category \in {"error", "comments"} |->
                            IF category = "error"
                            THEN <<[kind |-> "could_not_execute",
                                    cmd  |-> call_arguments]>>
                            ELSE <<>>]),
     files    |-> files,
     launched |-> TRUE,
     proc     |-> proc,
     path     |-> "oserror"]

\* "except OSError": the process could not be started.
OSErrorReturn(call_arguments, filename, proc, files) ==
    [result   |-> Dict1(filename,
                        Dict1("error", <<[kind |-> "could_not_execute",
                                          cmd  |-> call_arguments]>>)),
     files    |-> files,
     launched |-> TRUE,
     proc     |-> proc,
     path     |-> "oserror"]

\* "if error.returncode in fatal_exits"
FatalReturn(call_arguments, filename, proc, files) ==
    [result   |-> Dict1(filename,
                        Dict1("error", <<[kind   |-> "returned_error_code",
                                          cmd    |-> call_arguments,
                                          code   |-> proc.code,
                                          output |-> proc.output]>>)),
     files    |-> files,
     launched |-> TRUE,
     proc     |-> proc,
     path     |-> "fatal"]

\* The process gave an output: it is decoded (every output of the model is
\* valid UTF-8), saved in the cache and parsed.
RunReturn(name, linter_hash, filename, lines, proc, files, now) ==
    [result   |-> Dict1(filename,
                        Dict1("comments", ParseOutput(proc.output, lines))),
     files    |-> save_output_in_cache(files, now, name, linter_hash, filename,
                                       proc.output),
     launched |-> TRUE,
     proc     |-> proc,
     path     |-> "run"]

\* Mutant of lint_command: the output is saved before the exit code is
\* looked at, so the output of a fatal run is cached too.
lint_command_SavesFatal(name, program, arguments, fatal_exits, filter_regex, filename, lines, proc, files, mtimes, now) ==
    LET linter_hash    == calculate_hash(program, arguments)
        output         == get_output_from_cache(files, mtimes, name, linter_hash,
                                                filename)
        call_arguments == <<program>> \o arguments \o <<filename>>
        saved          == save_output_in_cache(files, now, name, linter_hash,
                                               filename, proc.output)
    IN IF ~output.none
       THEN CachedReturn(filename, lines, output.text, files)
       ELSE IF proc.kind = "oserror"
       THEN OSErrorReturn(call_arguments, filename, proc, files)
       ELSE IF IsFatal(proc, fatal_exits)
       THEN FatalReturn(call_arguments, filename, proc, saved)
       ELSE RunReturn(name, linter_hash, filename, lines, proc, files, now)

\* lint_command on the file system (files, mtimes) at time now, with proc
\* what the external process does if it is run.
lint_command(name, program, arguments, fatal_exits, filter_regex, filename, lines, proc, files, mtimes, now) ==
    LET linter_hash    == calculate_hash(program, arguments)
        output         == get_output_from_cache(files, mtimes, name, linter_hash,
                                                filename)
        call_arguments == <<program>> \o arguments \o <<filename>>
    IN IF ~output.none
       THEN CachedReturn(filename, lines, output.text, files)
       ELSE IF proc.kind = "oserror"
       THEN OSErrorReturn(call_arguments, filename, proc, files)
       ELSE IF IsFatal(proc, fatal_exits)
       THEN FatalReturn(call_arguments, filename, proc, files)
       ELSE RunReturn(name, linter_hash, filename, lines, proc, files, now)

\* Calling a binding (a Partial) with (filename, lines).
Invoke(linter, filename, lines, proc, files, mtimes, now) ==
    IF linter.func = "lint_command"
    THEN lint_command(linter.name, linter.program, linter.arguments,
                      linter.fatal_exits, linter.filter, filename, lines,
                      proc, files, mtimes, now)
    ELSE [result   |-> missing_requirements_command(
                           linter.missing_programs, linter.installation_string,
                           filename, lines),
          files    |-> files,
          launched |-> FALSE,
          proc     |-> NotRun,
          path     |-> "missing"]

\* The cache file of a binding that runs a process, for a source file.
CacheFileOf(linter, filename) ==
    get_cache_filename(linter.name,
                       calculate_hash(linter.program, linter.arguments),
                       filename)

-----------------------------------------------------------------------------
(* The orchestrator: linters.lint.                                         *)

\* p.rfind(c), counted from 1; 0 if c does not occur.
RFind(p, c) ==
    LET at == {i \in 1..Len(p) : p[i] = c}
    IN IF at = {} THEN 0 ELSE CHOOSE i \in at : \A j \in at : j <= i

\* os.path.splitext: the extension starts at the last dot of the last path
\* component, unless only dots precede it there.
splitext(p) ==
    LET sepIndex == RFind(p, "/")
        dotIndex == RFind(p, ".")
    IN IF /\ dotIndex > sepIndex
          /\ \E i \in (sepIndex + 1)..(dotIndex - 1) : p[i] # "."
       THEN <<SubSeq(p, 1, dotIndex - 1), SubSeq(p, dotIndex, Len(p))>>
       ELSE <<p, <<>>>>

\* os.path.split(p)[1]: what follows the last "/".
basename(p) == SubSeq(p, RFind(p, "/") + 1, Len(p))

\* Mutant of ConfigKey: the extension, also when the file has none.
ConfigKey_ExtensionOnly(filename) == splitext(filename)[2]

\* config_key = ext if ext else os.path.split(root)[1]
ConfigKey(filename) ==
    LET root == splitext(filename)[1]
        ext  == splitext(filename)[2]
    IN IF ext # <<>> THEN ext ELSE basename(root)

\* Mutant of Extend: the values of a linter go in front of the list.
Extend_Prepends(output, linter_output) ==
    [category \in DOMAIN output \cup DOMAIN linter_output |->
        (IF category \in DOMAIN linter_output
         THEN linter_output[category] ELSE <<>>)
        \o (IF category \in DOMAIN output THEN output[category] ELSE <<>>)]

\* output[category].extend(values) for every category of one linter's output.
Extend(output, linter_output) ==
    [category \in DOMAIN output \cup DOMAIN linter_output |->
        (IF category \in DOMAIN output THEN output[category] ELSE <<>>)
        \o (IF category \in DOMAIN linter_output
            THEN linter_output[category] ELSE <<>>)]

\* Mutant of SortKey: a comment without a line or a column sorts last.
SortKey_AbsentLast(x) ==
    <<IF "line" \in DOMAIN x THEN x["line"] ELSE 1000,
      IF "column" \in DOMAIN x THEN x["column"] ELSE 1000>>

\* key=lambda x: (x.get('line', -1), x.get('column', -1))
SortKey(x) ==
    <<IF "line" \in DOMAIN x THEN x["line"] ELSE -1,
      IF "column" \in DOMAIN x THEN x["column"] ELSE -1>>

\* Python's order of tuples of two numbers.
KeyLess(a, b) == a[1] < b[1] \/ (a[1] = b[1] /\ a[2] < b[2])

\* sorted(xs, key=SortKey): stable, equal keys keep their order.
RECURSIVE sorted(_)
sorted(xs) ==
    IF xs = <<>> THEN <<>>
    ELSE LET x    == xs[Len(xs)]
             rest == sorted(SubSeq(xs, 1, Len(xs) - 1))
             \* x goes behind every element whose key is not greater
             n    == Cardinality({i \in 1..Len(rest) :
                                    ~KeyLess(SortKey(x), SortKey(rest[i]))})
         IN SubSeq(rest, 1, n) \o <<x>> \o SubSeq(rest, n + 1, Len(rest))

\* The loop "for linter in config[config_key]" from binding i on: the
\* calls made, in order, and the file system after the last one.  procOf[j]
\* is what the external process of binding j does if it is run.
RECURSIVE RunLinters(_, _, _, _, _, _, _, _)
RunLinters(linters, i, filename, lines, procOf, files, mtimes, now) ==
    IF i > Len(linters) THEN [calls |-> <<>>, files |-> files]
    ELSE LET Then(r) ==
                 LET Prepend(rest) ==
                         [calls |-> <<[linter   |-> linters[i],
                                       output   |-> r.result,
                                       launched |-> r.launched,
                                       proc     |-> r.proc,
                                       path     |-> r.path]>> \o rest.calls,
                          files |-> rest.files]
                 \* the set binds the value, which is then computed once
                 IN CHOOSE y \in {Prepend(rest) : rest \in
                        {RunLinters(linters, i + 1, filename, lines, procOf,
                                    r.files, mtimes, now)}} : TRUE
         IN CHOOSE y \in {Then(r) : r \in
                {Invoke(linters[i], filename, lines, procOf[i], files, mtimes,
                        now)}} : TRUE

\* The merge of the linters' outputs, in the order of the calls.
RECURSIVE MergeOutputs(_, _, _)
MergeOutputs(output, calls, filename) ==
    IF calls = <<>> THEN output
    ELSE MergeOutputs(Extend(output, calls[1].output[filename]), Tail(calls),
                      filename)

\* The sort of the comments, if the merged output has any.
SortComments(output) ==
    [category \in DOMAIN output |->
        IF category = "comments" THEN sorted(output[category])
        ELSE output[category]]

\* config[key] of a collections.defaultdict(list): a key that has no entry
\* gets an empty list, and the dict is changed by that.
GetItem(cfg, key) ==
    IF key \in DOMAIN cfg
    THEN [value |-> cfg[key], config |-> cfg]
    ELSE [value  |-> <<>>,
          config |-> [k \in DOMAIN cfg \cup {key} |->
                         IF k = key THEN <<>> ELSE cfg[k]]]

\* Mutant of InConfig: "if config[config_key]" instead of
\* "if config_key in config".
InConfig_ByItem(cfg, key) ==
    [found |-> GetItem(cfg, key).value # <<>>, config |-> GetItem(cfg, key).config]

\* "config_key in config": the test does not change the dict.
InConfig(cfg, key) == [found |-> key \in DOMAIN cfg, config |-> cfg]

\* lint(filename, lines, config): the value returned, the calls of the
\* bindings, the file system and the config dict afterwards.
lint(filename, lines, cfg, procOf, files, mtimes, now) ==
    LET config_key == ConfigKey(filename)
        test       == InConfig(cfg, config_key)
    IN IF test.found
       THEN LET linters == GetItem(test.config, config_key)
                run == RunLinters(linters.value, 1, filename, lines, procOf,
                                  files, mtimes, now)
            IN [result |-> Dict1(filename,
                                 SortComments(MergeOutputs(<<>>, run.calls,
                                                           filename))),
                calls  |-> run.calls,
                files  |-> run.files,
                config |-> linters.config]
       ELSE [result |-> Dict1(filename,
                              Dict1("skipped",
                                    <<[kind |-> "no_linter", key |-> config_key]>>)),
             calls  |-> <<>>,
             files  |-> files,
             config |-> test.config]

-----------------------------------------------------------------------------
(* The configuration compiler: utils.which, programs_not_in_path,          *)
(* linters._replace_variables and parse_yaml_config.                       *)

\* The executable files found through PATH when the configuration is
\* compiled.
Installed == {<<"p">>, <<"q">>, <<"r">>}

\* which(program): the places where the program is found.
which(program) == IF program \in Installed THEN <<program>> ELSE <<>>

programs_not_in_path(programs) ==
    LET NotFound(program) == which(program) = <<>>
    IN SelectSeq(programs, NotFound)

\* formatter.vformat(item, [], variables): a placeholder is one element of
\* the string, replaced by the value of its variable.
RECURSIVE vformat(_, _)
vformat(item, variables) ==
    IF item = <<>> THEN <<>>
    ELSE (IF item[1] \in DOMAIN variables THEN variables[item[1]]
          ELSE <<item[1]>>) \o vformat(Tail(item), variables)

replace_variables(data, variables) ==
    [i \in 1..Len(data) |-> vformat(data[i], variables)]

\* data.get(field, default)
Get(data, field, default) ==
    IF field \in DOMAIN data THEN data[field] ELSE default

\* "for extension in data['extensions']: config[extension].append(...)"
RECURSIVE Register(_, _, _)
Register(cfg, extensions, linter_command) ==
    IF extensions = <<>> THEN cfg
    ELSE LET extension == extensions[1]
             added == [e \in DOMAIN cfg \cup {extension} |->
                          IF e = extension
                          THEN (IF e \in DOMAIN cfg THEN cfg[e] ELSE <<>>)
                               \o <<linter_command>>
                          ELSE cfg[e]]
         IN Register(added, Tail(extensions), linter_command)

\* A KeyError leaves parse_yaml_config without a value.
Raised == [raised |-> TRUE, config |-> <<>>]

\* The loop of parse_yaml_config from entry i on; yaml_config is the list of
\* the (name, data) items in their order.
RECURSIVE CompileFrom(_, _, _, _)
CompileFrom(yaml_config, i, variables, cfg) ==
    IF i > Len(yaml_config) THEN [raised |-> FALSE, config |-> cfg]
    ELSE
    LET name == yaml_config[i][1]
        data == yaml_config[i][2]
    IN IF "command" \notin DOMAIN data THEN Raised
       ELSE
       LET command      == replace_variables(<<data["command"]>>, variables)[1]
           requirements == replace_variables(Get(data, "requirements", <<>>),
                                             variables)
           arguments    == replace_variables(Get(data, "arguments", <<>>),
                                             variables)
           not_found_programs ==
               programs_not_in_path(<<command>> \o requirements)
       IN IF not_found_programs # <<>> /\ "installation" \notin DOMAIN data
          THEN Raised
          ELSE IF not_found_programs = <<>> /\ "filter" \notin DOMAIN data
          THEN Raised
          ELSE IF "extensions" \notin DOMAIN data THEN Raised
          ELSE
          LET linter_command ==
                  IF not_found_programs # <<>>
                  THEN [func |-> "missing_requirements_command",
                        missing_programs    |-> not_found_programs,
                        installation_string |-> data["installation"]]
                  ELSE [func |-> "lint_command",
                        name        |-> name,
                        program     |-> command,
                        arguments   |-> arguments,
                        fatal_exits |-> Get(data, "fatal_exits", <<>>),
                        filter      |-> data["filter"]]
          IN CompileFrom(yaml_config, i + 1, variables,
                         Register(cfg, data["extensions"], linter_command))

parse_yaml_config(yaml_config, repo_home) ==
    CompileFrom(yaml_config, 1,
                [v \in {"{DEFAULT_CONFIGS}", "{REPO_HOME}"} |->
                    IF v = "{REPO_HOME}" THEN repo_home ELSE <<"/", "d">>],
                <<>>)

-----------------------------------------------------------------------------
(* The configuration and the source files of the model. *)

FilterStd == "std"

\* One installed tool, l1, for ".p" files; exit code 2 is fatal.
YamlConfig ==
    << <<"l1", [command      |-> <<"p">>,
                arguments    |-> << <<"-", "c">>, <<"{REPO_HOME}">> >>,
                fatal_exits  |-> <<2>>,
                filter       |-> FilterStd,
                installation |-> "install p",
                extensions   |-> << <<".", "p">> >>]>> >>

\* Four tools: l1 and l2 are installed, s1 and s2 miss a program.  l1, s1,
\* l2 and s2 apply to ".p" files, in this order; s1 applies to "M" as well.
YamlConfigMerge ==
    << <<"l1", [command      |-> <<"q">>,
                fatal_exits  |-> <<2>>,
                filter       |-> FilterStd,
                installation |-> "install q",
                extensions   |-> << <<".", "p">> >>]>>,
       <<"s1", [command      |-> <<"m">>,
                filter       |-> FilterStd,
                installation |-> "install m",
                extensions   |-> << <<".", "p">>, <<"M">> >>]>>,
       <<"l2", [command      |-> <<"r">>,
                arguments    |-> << <<"-", "c">> >>,
                filter       |-> FilterStd,
                installation |-> "install r",
                extensions   |-> << <<".", "p">> >>]>>,
       <<"s2", [command      |-> <<"q">>,
                requirements |-> << <<"n">>, <<"m">> >>,
                filter       |-> FilterStd,
                installation |-> "install n m",
                extensions   |-> << <<".", "p">> >>]>> >>

RepoHome == <<"/", "r">>

FileP == <<"a", ".", "p">>
FileM == <<"M">>
FileZ == <<"s", "/", "b", ".", "z">>
FileD == <<"s", ".", "d", "/", "c">>
Files == {FileP, FileM, FileZ, FileD}

LinesChoices == {NoLines, Only(<<1>>)}

\* No call of lint yet.
NoCall == [seq |-> 0, filename |-> <<>>, lines |-> NoLines,
           result |-> <<>>, calls |-> <<>>, stale |-> {}, prev |-> <<>>]

-----------------------------------------------------------------------------
(* The state machine: one process that calls lint, while time passes and   *)
(* source files are modified between the calls.                            *)

Init ==
    /\ clock = 0
    /\ srcMtime = [f \in {FileP} |-> 0]
    /\ cache = <<>>
    /\ config = parse_yaml_config(YamlConfig, RepoHome).config
    /\ last = NoCall
    /\ untouched = {}
    /\ lastPath = <<>>
    /\ procs = <<>>
    /\ call = NotCalled

\* The clock of the file system advances.
Tick ==
    /\ clock < MaxClock
    /\ clock' = clock + 1
    /\ UNCHANGED <<srcMtime, cache, config, last, untouched, lastPath, procs, call>>

\* A source file is modified (or touched): it carries the current time.  A
\* process whose linter has read the file before has an output of the former
\* content (history, kept with the process).
Touch(filename) ==
    /\ srcMtime' = [srcMtime EXCEPT ![filename] = clock]
    /\ untouched' = {c \in untouched : c[3] # Tail(abspath(filename))}
    /\ procs' = [p \in DOMAIN procs |->
                    IF procs[p].path = "run"
                    THEN [procs[p] EXCEPT !.modified = TRUE]
                    ELSE procs[p]]
    /\ UNCHANGED <<clock, cache, config, last, lastPath, call>>

\* The bindings of the file's key that run an external process.
Runnable(filename) ==
    IF ConfigKey(filename) \in DOMAIN config
    THEN {i \in 1..Len(config[ConfigKey(filename)]) :
             config[ConfigKey(filename)][i].func = "lint_command"}
    ELSE {}

\* What the processes of the runnable bindings can do, binding by binding.
ProcChoices(filename) ==
    LET linters == config[ConfigKey(filename)]
        all     == UNION {ProcOutcomes(linters[i].program) : i \in Runnable(filename)}
    IN {procOf \in [Runnable(filename) -> all] :
           \A i \in Runnable(filename) :
               procOf[i] \in ProcOutcomes(linters[i].program)}

\* The calls of lint_command among the calls of one lint.
CommandCalls(calls) == {i \in 1..Len(calls) : calls[i].linter.func = "lint_command"}

\* One call lint(filename, lines, config), from its first statement to its
\* return.
Lint(filename, lines) ==
    \E procOf \in ProcChoices(filename) :
    \E r \in {lint(filename, lines, config, procOf, cache, srcMtime, clock)} :
        LET written == {CacheFileOf(r.calls[i].linter, filename) :
                           i \in {j \in CommandCalls(r.calls) :
                                     r.calls[j].path = "run"}}
            called  == {CacheFileOf(r.calls[i].linter, filename) :
                           i \in CommandCalls(r.calls)}
        IN /\ cache' = r.files
           /\ config' = r.config
           /\ last' = [seq       |-> 1 - last.seq,
                       filename  |-> filename,
                       lines     |-> lines,
                       result    |-> r.result,
                       calls     |-> r.calls,
                       \* history: the cache files this call found
                       \* written before the last modification of
                       \* their source file
                       stale     |-> (called \cap DOMAIN cache) \ untouched,
                       \* history: how the call before this one
                       \* returned, for every cache file of this call
                       prev      |-> [c \in called |->
                                         IF c \in DOMAIN lastPath
                                         THEN lastPath[c] ELSE "none"]]
           /\ untouched' = untouched \cup written
           /\ lastPath' =
                  [c \in DOMAIN lastPath \cup called |->
                      IF c \in called
                      THEN LET i == CHOOSE j \in CommandCalls(r.calls) :
                                        CacheFileOf(r.calls[j].linter, filename) = c
                           IN r.calls[i].path
                      ELSE lastPath[c]]
           /\ UNCHANGED <<clock, srcMtime, procs, call>>

Next ==
    \/ Tick
    \/ \E filename \in DOMAIN srcMtime : Touch(filename)
    \/ \E filename \in DOMAIN srcMtime, lines \in LinesChoices :
           Lint(filename, lines)

Spec == Init /\ [][Next]_vars

\* The merge of several bindings: four tools and three source files, within
\* one tick of the clock.
InitMerge ==
    /\ clock = 1
    /\ srcMtime = [f \in Files |-> 0]
    /\ cache = <<>>
    /\ config = parse_yaml_config(YamlConfigMerge, RepoHome).config
    /\ last = NoCall
    /\ untouched = {}
    /\ lastPath = <<>>
    /\ procs = <<>>
    /\ call = NotCalled

NextMerge ==
    \/ \E filename \in DOMAIN srcMtime, lines \in LinesChoices :
           Lint(filename, lines)

SpecMerge == InitMerge /\ [][NextMerge]_vars

-----------------------------------------------------------------------------
(* Two processes in lint_command for the same binding and the same file,   *)
(* step by step: each access to the file system is a step of its own.      *)

Processes == {"P1", "P2"}

\* The binding and the file the two processes work on, and its cache file.
ConcLinter == parse_yaml_config(YamlConfig, RepoHome).config[ConfigKey(FileP)][1]
ConcCacheFile == CacheFileOf(ConcLinter, FileP)

\* What the cache file holds when the processes start: the output of an
\* earlier run.
HeldBefore == WriteText(OutNoise)

\* A process at the first statement of lint_command.
AtStart == [pc |-> "start", output |-> None, path |-> "none", result |-> <<>>,
            modified |-> FALSE]

InitConc ==
    /\ clock = 1
    /\ srcMtime = [f \in {FileP} |-> 0]
    /\ \E mtime \in 0..1 :
           cache = Dict1(ConcCacheFile, [text |-> HeldBefore, mtime |-> mtime])
    /\ config = parse_yaml_config(YamlConfig, RepoHome).config
    /\ last = NoCall
    /\ untouched = {}
    /\ lastPath = <<>>
    /\ procs = [p \in Processes |-> AtStart]
    /\ call = NotCalled

\* get_output_from_cache, the test: os.path.exists and the two getmtime.
CheckCache(p) ==
    /\ procs[p].pc = "start"
    /\ procs' = [procs EXCEPT ![p].pc =
                    IF CacheValid(cache, srcMtime, ConcCacheFile, FileP)
                    THEN "read" ELSE "launch"]
    /\ UNCHANGED <<clock, srcMtime, cache, config, last, untouched, lastPath, call>>

\* get_output_from_cache, "with io.open(cache_filename) as f: return f.read()",
\* and the rest of lint_command on the text read.
ReadCache(p) ==
    /\ procs[p].pc = "read"
    /\ \E text \in {ReadText(cache[ConcCacheFile].text)} :
           procs' = [procs EXCEPT ![p] =
                        [pc     |-> "returned",
                         output |-> Some(text),
                         path   |-> "cached",
                         result |-> CachedReturn(FileP, NoLines, text, cache).result,
                         modified |-> FALSE]]
    /\ UNCHANGED <<clock, srcMtime, cache, config, last, untouched, lastPath, call>>

\* subprocess.check_output and its exception handlers.
Launch(p) ==
    /\ procs[p].pc = "launch"
    /\ \E proc \in ProcOutcomes(ConcLinter.program) :
           LET call_arguments == <<ConcLinter.program>> \o ConcLinter.arguments
                                     \o <<FileP>>
           IN procs' = [procs EXCEPT ![p] =
                  IF proc.kind = "oserror"
                  THEN [pc     |-> "returned",
                        output |-> None,
                        path   |-> "oserror",
                        result |-> OSErrorReturn(call_arguments, FileP, proc,
                                                 cache).result,
                        modified |-> FALSE]
                  ELSE IF IsFatal(proc, ConcLinter.fatal_exits)
                  THEN [pc     |-> "returned",
                        output |-> None,
                        path   |-> "fatal",
                        result |-> FatalReturn(call_arguments, FileP, proc,
                                               cache).result,
                        modified |-> FALSE]
                  ELSE [pc     |-> "save",
                        output |-> Some(proc.output),
                        path   |-> "run",
                        result |-> <<>>,
                        modified |-> FALSE]]
    /\ UNCHANGED <<clock, srcMtime, cache, config, last, untouched, lastPath, call>>

\* save_output_in_cache, the call of _open_for_write.
OpenCache(p) ==
    /\ procs[p].pc = "save"
    /\ cache' = open_for_write(cache, clock, ConcCacheFile)
    /\ procs' = [procs EXCEPT ![p].pc = "write"]
    /\ UNCHANGED <<clock, srcMtime, config, last, untouched, lastPath, call>>

\* save_output_in_cache, f.write(output) and the close, and the rest of
\* lint_command on the output of the process.
WriteCache(p) ==
    /\ procs[p].pc = "write"
    /\ cache' = WriteAndClose(cache, clock, ConcCacheFile, procs[p].output.text)
    /\ procs' = [procs EXCEPT ![p].pc = "returned",
                              ![p].result =
                                  CachedReturn(FileP, NoLines,
                                               procs[p].output.text, cache).result]
    /\ UNCHANGED <<clock, srcMtime, config, last, untouched, lastPath, call>>

NextConc ==
    \/ Tick
    \/ Touch(FileP)
    \/ \E p \in Processes : CheckCache(p)
    \/ \E p \in Processes : ReadCache(p)
    \/ \E p \in Processes : Launch(p)
    \/ \E p \in Processes : OpenCache(p)
    \/ \E p \in Processes : WriteCache(p)

SpecConc == InitConc /\ [][NextConc]_vars

-----------------------------------------------------------------------------
(* Calls of single functions of the library, on arguments of all kinds.    *)

\* The fields a tool entry of the configuration file may have, and a value
\* for each; the command is given.
EntryFields == {"command", "requirements", "filter", "installation", "extensions"}

EntryValue(field, command) ==
    CASE field = "command"      -> command
      [] field = "requirements" -> << <<"n">> >>
      [] field = "filter"       -> FilterStd
      [] field = "installation" -> "install it"
      [] field = "extensions"   -> << <<".", "p">> >>

\* Tool entries with any of the fields, with a command that is installed or
\* one that is not; the requirement n is not installed.
EntryChoices ==
    {[field \in fields |-> EntryValue(field, command)] :
        fields \in SUBSET EntryFields, command \in {<<"p">>, <<"m">>}}

\* Configuration files: one entry, or a complete entry followed by one entry.
YamlChoices ==
    {<< <<"t", entry>> >> : entry \in EntryChoices}
        \cup {YamlConfig \o << <<"t", entry>> >> : entry \in EntryChoices}

InitPure ==
    /\ clock = 0
    /\ srcMtime = [f \in {FileP} |-> 0]
    /\ cache = <<>>
    /\ config = parse_yaml_config(YamlConfig, RepoHome).config
    /\ last = NoCall
    /\ untouched = {}
    /\ lastPath = <<>>
    /\ procs = <<>>
    /\ call = NotCalled

\* parse_yaml_config(yaml_config, repo_home)
ParseYamlConfig(yaml_config) ==
    /\ call = NotCalled
    /\ \E r \in {parse_yaml_config(yaml_config, RepoHome)} :
           call' = [op          |-> "parse_yaml_config",
                    yaml_config |-> yaml_config,
                    raised      |-> r.raised,
                    config      |-> r.config]
    /\ UNCHANGED <<clock, srcMtime, cache, config, last, untouched, lastPath,
                   procs>>

\* Strings for programs and arguments, some with the separator calculate_hash
\* puts between them.
HashStrings == {<<"a">>, <<"b">>, <<"a", "|", "b">>}

MaxArgs == 2

\* The argument lists of up to MaxArgs arguments.
ArgumentLists == UNION {[1..n -> HashStrings] : n \in 0..MaxArgs}

\* calculate_hash(program, arguments), called for two invocations.
CalculateHash(first, second) ==
    /\ call = NotCalled
    /\ call' = [op     |-> "calculate_hash",
                first  |-> first,
                second |-> second,
                hashes |-> <<calculate_hash(first.program, first.arguments),
                             calculate_hash(second.program, second.arguments)>>,
                again  |-> calculate_hash(first.program, first.arguments)]
    /\ UNCHANGED <<clock, srcMtime, cache, config, last, untouched, lastPath,
                   procs>>

\* What a linter may print: line ends, carriage returns, a character, and
\* the part of a finding in front of its message, with all, one or none of
\* its optional parts.
OutputTokens ==
    {LF, CR, Ch("a"),
     Prefix(<<1>>, <<2>>, <<"W", "a">>, "E1"),
     Prefix(<<3>>, <<>>, <<>>, ""),
     Prefix(<<>>, <<>>, <<>>, "")}

MaxTokens == 5

\* The outputs of up to MaxTokens tokens.
OutputTexts == UNION {[1..n -> OutputTokens] : n \in 0..MaxTokens}

\* lint_command for the binding of YamlConfig, with nothing in the cache and
\* a process that prints the output and exits with 0.
LintCommand(output, lines) ==
    /\ call = NotCalled
    /\ \E r \in {lint_command(ConcLinter.name, ConcLinter.program,
                               ConcLinter.arguments, ConcLinter.fatal_exits,
                               ConcLinter.filter, FileP, lines,
                               [kind |-> "exit", code |-> 0, output |-> output],
                               <<>>, srcMtime, clock)} :
           call' = [op     |-> "lint_command",
                    output |-> output,
                    lines  |-> lines,
                    result |-> r.result,
                    path   |-> r.path]
    /\ UNCHANGED <<clock, srcMtime, cache, config, last, untouched, lastPath,
                   procs>>

\* Each behaviour is one call.
NextPure ==
    /\ call = NotCalled
    /\ \/ \E yaml_config \in YamlChoices : ParseYamlConfig(yaml_config)
       \/ \E output \in OutputTexts, lines \in LinesChoices :
              LintCommand(output, lines)
       \/ \E first, second \in [program : HashStrings, arguments : ArgumentLists] :
              CalculateHash(first, second)

SpecPure == InitPure /\ [][NextPure]_vars

-----------------------------------------------------------------------------
(* Properties of lint_command and the cache, checked under Spec.           *)

\* The cache file of call c of a lint of filename.
KeyOf(c, filename) == CacheFileOf(c.linter, filename)

\* The step is a call of lint.
LintStep == last'.seq # last.seq

\* The cache file is the same before and after the step.
SameEntry(c) ==
    /\ (c \in DOMAIN cache') <=> (c \in DOMAIN cache)
    /\ c \in DOMAIN cache => cache'[c] = cache[c]

\* C1 (idempotence), in the case its parenthesis describes: a call of lint
\* ran the process of a binding, which ended without a fatal exit, and wrote
\* the cache entry later than the source file's time stamp; the file is not
\* modified afterwards.  Then a second call of lint for the same file and
\* lines launches no process for that binding and returns what the first
\* call returned.
C1_Idempotent ==
    [][\A i \in CommandCalls(last.calls) :
          (/\ LintStep
           /\ last'.filename = last.filename
           /\ last'.lines = last.lines
           /\ last.calls[i].path = "run"
           /\ KeyOf(last.calls[i], last.filename) \in untouched
           /\ KeyOf(last.calls[i], last.filename) \in DOMAIN cache
           /\ srcMtime[last.filename]
                  < cache[KeyOf(last.calls[i], last.filename)].mtime)
          => /\ ~last'.calls[i].launched
             /\ last'.calls[i].output = last.calls[i].output
             /\ last'.result = last.result]_vars

\* The part of C1 that the code keeps: in that case the second call launches
\* no process.
C1_SecondCallFromCache ==
    [][\A i \in CommandCalls(last.calls) :
          (/\ LintStep
           /\ last'.filename = last.filename
           /\ last.calls[i].path = "run"
           /\ KeyOf(last.calls[i], last.filename) \in untouched
           /\ KeyOf(last.calls[i], last.filename) \in DOMAIN cache
           /\ srcMtime[last.filename]
                  < cache[KeyOf(last.calls[i], last.filename)].mtime)
          => /\ ~last'.calls[i].launched
             /\ last'.calls[i].path = "cached"]_vars

\* C2 (cache invalidation): when lint is called for a file whose cache entry
\* exists and was written before the file was last modified, the binding
\* does not use the cached text: it calls the process runner again.
C2_TouchInvalidates ==
    \A i \in CommandCalls(last.calls) :
        KeyOf(last.calls[i], last.filename) \in last.stale
        => /\ last.calls[i].launched
           /\ last.calls[i].path # "cached"

\* C2's case: a call found an entry older than the file's last modification
\* and launched the process again.
C2_Witness ==
    \E i \in CommandCalls(last.calls) :
        /\ KeyOf(last.calls[i], last.filename) \in last.stale
        /\ last.calls[i].launched

\* The runnable bindings of the configuration, with a file of their key.
BoundTo(filename) ==
    {config[ConfigKey(filename)][i] : i \in Runnable(filename)}

\* C3 (get_output_from_cache): it returns the text stored in the cache file
\* if and only if the cache file exists and the source file's time stamp is
\* strictly earlier than the cache file's; it returns None otherwise.
C3_GetReturnsStoredText ==
    \A filename \in DOMAIN srcMtime : \A linter \in BoundTo(filename) :
        LET c   == CacheFileOf(linter, filename)
            got == get_output_from_cache(
                       cache, srcMtime, linter.name,
                       calculate_hash(linter.program, linter.arguments),
                       filename)
        IN IF c \in DOMAIN cache /\ srcMtime[filename] < cache[c].mtime
           THEN got = Some(cache[c].text)
           ELSE got = None

\* The part of C3 that the code keeps: a text is returned exactly when the
\* cache file exists and is strictly younger than the source file, and the
\* text is the file's content as a text-mode read gives it.
C3_HitIffValid ==
    \A filename \in DOMAIN srcMtime : \A linter \in BoundTo(filename) :
        LET c   == CacheFileOf(linter, filename)
            got == get_output_from_cache(
                       cache, srcMtime, linter.name,
                       calculate_hash(linter.program, linter.arguments),
                       filename)
        IN IF c \in DOMAIN cache /\ srcMtime[filename] < cache[c].mtime
           THEN got = Some(ReadText(cache[c].text))
           ELSE got = None

\* The process of call c exited with a code of the binding's fatal list.
ExitedFatal(c) ==
    /\ c.launched
    /\ c.proc.kind = "exit"
    /\ InList(c.proc.code, c.linter.fatal_exits)

C5_LaunchFailure ==
    [][LintStep =>
          \A i \in CommandCalls(last'.calls) :
              LET c == last'.calls[i]
              IN (c.launched /\ c.proc.kind = "oserror") =>
                     /\ DOMAIN c.output[last'.filename] = {"error"}
                     /\ Len(c.output[last'.filename]["error"]) = 1
                     /\ c.output[last'.filename]["error"][1].kind
                            = "could_not_execute"
                     /\ SameEntry(KeyOf(c, last'.filename))]_vars

\* C5's case: a launch failure, with a cache file in place.
C5_Witness ==
    \E i \in CommandCalls(last.calls) :
        /\ last.calls[i].launched
        /\ last.calls[i].proc.kind = "oserror"
        /\ KeyOf(last.calls[i], last.filename) \in DOMAIN cache

\* The process of call c exited with a code that is neither 0 nor fatal.
ExitedNonFatal(c) ==
    /\ c.launched
    /\ c.proc.kind = "exit"
    /\ c.proc.code # 0
    /\ ~InList(c.proc.code, c.linter.fatal_exits)

\* C6 (non-fatal nonzero exit): the call returns what it would have returned,
\* and leaves the cache file as it would have left it, had the process
\* exited with 0 and the same output: the output is in the cache file, and
\* the value returned has comments and no error.
C6_NonFatalNonzero ==
    [][LintStep =>
          \A i \in CommandCalls(last'.calls) :
              LET c    == last'.calls[i]
                  k    == KeyOf(c, last'.filename)
                  zero == lint_command(
                              c.linter.name, c.linter.program,
                              c.linter.arguments, c.linter.fatal_exits,
                              c.linter.filter, last'.filename, last'.lines,
                              [c.proc EXCEPT !.code = 0], cache, srcMtime,
                              clock)
              IN ExitedNonFatal(c) =>
                     /\ c.output = zero.result
                     /\ k \in DOMAIN cache'
                     /\ cache'[k] = zero.files[k]
                     /\ cache'[k].text = WriteText(c.proc.output)
                     /\ DOMAIN c.output[last'.filename] = {"comments"}]_vars

\* C6's case: a process exited with 1, which is not fatal, and printed
\* findings.
C6_Witness ==
    \E i \in CommandCalls(last.calls) :
        /\ ExitedNonFatal(last.calls[i])
        /\ last.calls[i].output[last.filename]["comments"] # <<>>

-----------------------------------------------------------------------------
(* Properties of lint, checked under SpecMerge.                            *)

\* The last call of lint was for a file whose key has bindings.
LintedWithBindings ==
    /\ last # NoCall
    /\ ConfigKey(last.filename) \in DOMAIN config

\* The entries of one category the calls from call i on returned, call after
\* call.
RECURSIVE Returned(_, _, _, _)
Returned(calls, i, filename, category) ==
    IF i > Len(calls) THEN <<>>
    ELSE (IF category \in DOMAIN calls[i].output[filename]
          THEN calls[i].output[filename][category] ELSE <<>>)
         \o Returned(calls, i + 1, filename, category)

\* Some call returned the category.
SomeReturned(calls, filename, category) ==
    \E i \in 1..Len(calls) : category \in DOMAIN calls[i].output[filename]

\* C9 (failure isolation and merge order): a lint of a file whose key has
\* bindings b1..bn makes n calls, call i being the call of bi, whatever the
\* calls before it returned; the merged result has an error list, or a
\* skipped list, exactly when some call returned one, and the list is the
\* concatenation, in the order of the calls, of the entries the calls
\* returned.
C9_IsolationAndMergeOrder ==
    LintedWithBindings =>
        LET bindings == config[ConfigKey(last.filename)]
            merged   == last.result[last.filename]
        IN /\ Len(last.calls) = Len(bindings)
           /\ \A i \in 1..Len(bindings) : last.calls[i].linter = bindings[i]
           /\ \A category \in {"error", "skipped"} :
                  /\ category \in DOMAIN merged
                         <=> SomeReturned(last.calls, last.filename, category)
                  /\ category \in DOMAIN merged =>
                         merged[category]
                             = Returned(last.calls, 1, last.filename, category)

\* C9's case: the first binding failed, a later binding failed too, two
\* bindings were skipped and all four were called; the merged result has
\* two different errors and two different skipped entries.
C9_Witness ==
    /\ LintedWithBindings
    /\ Len(last.calls) = 4
    /\ "error" \in DOMAIN last.calls[1].output[last.filename]
    /\ "error" \in DOMAIN last.calls[3].output[last.filename]
    /\ "error" \in DOMAIN last.result[last.filename]
    /\ "skipped" \in DOMAIN last.result[last.filename]
    /\ Len(last.result[last.filename]["error"]) = 2
    /\ Len(last.result[last.filename]["skipped"]) = 2
    /\ last.result[last.filename]["error"][1]
           # last.result[last.filename]["error"][2]
    /\ last.result[last.filename]["skipped"][1]
           # last.result[last.filename]["skipped"][2]

\* The number of times x occurs in xs.
Occurrences(x, xs) == Cardinality({i \in 1..Len(xs) : xs[i] = x})

\* xs is a permutation of ys.
IsPermutation(xs, ys) ==
    /\ Len(xs) = Len(ys)
    /\ \A i \in 1..Len(xs) : Occurrences(xs[i], xs) = Occurrences(xs[i], ys)

\* The pair a comment is ordered by: its line, or -1 if it has none, and
\* its column, or -1 if it has none.
LineColumn(x) ==
    <<IF "line" \in DOMAIN x THEN x["line"] ELSE -1,
      IF "column" \in DOMAIN x THEN x["column"] ELSE -1>>

\* Pair a is not after pair b.
PairLeq(a, b) == a[1] < b[1] \/ (a[1] = b[1] /\ a[2] <= b[2])

\* C10 (sorting law): the comments of a lint result that has a comments key
\* are a permutation of the concatenation of the comments the calls of the
\* bindings returned, and are in ascending order of the pair (line or -1,
\* column or -1).
C10_SortingLaw ==
    (LintedWithBindings /\ "comments" \in DOMAIN last.result[last.filename]) =>
        LET comments == last.result[last.filename]["comments"]
        IN /\ IsPermutation(comments,
                            Returned(last.calls, 1, last.filename, "comments"))
           /\ \A i, j \in 1..Len(comments) :
                  i < j => PairLeq(LineColumn(comments[i]),
                                   LineColumn(comments[j]))

\* C10's case: two bindings returned comments, one of them without a line,
\* and the concatenation of what they returned was not in order.
C10_Witness ==
    /\ LintedWithBindings
    /\ "comments" \in DOMAIN last.result[last.filename]
    /\ Cardinality({i \in 1..Len(last.calls) :
                       /\ "comments" \in DOMAIN last.calls[i].output[last.filename]
                       /\ last.calls[i].output[last.filename]["comments"] # <<>>})
           >= 2
    /\ \E i \in 1..Len(last.result[last.filename]["comments"]) :
           "line" \notin DOMAIN last.result[last.filename]["comments"][i]
    /\ last.result[last.filename]["comments"]
           # Returned(last.calls, 1, last.filename, "comments")

-----------------------------------------------------------------------------
(* Properties of the cache under concurrent calls, checked under SpecConc. *)

\* The texts that were stored completely at some time: the text the cache
\* file held at the start and the text of every process that has begun to
\* save its output.  The text of a process is its output until it returns.
CompleteTexts ==
    {HeldBefore}
        \cup {WriteText(procs[p].output.text) :
                 p \in {q \in DOMAIN procs : procs[q].path = "run"}}

\* C7 (no partial entry): a process that took its output from the cache got
\* the whole of a text that was stored, as a read of the complete file gives
\* it: never an empty text or a part of the text another process is saving.
C7_NeverPartial ==
    \A p \in DOMAIN procs :
        procs[p].path = "cached" =>
            procs[p].output.text \in {ReadText(t) : t \in CompleteTexts}

\* C8 (write race): two processes that saved different texts for the same
\* key have both returned; the cache file then holds exactly the text of one
\* of them.
C8_LastWriterWins ==
    \A p, q \in DOMAIN procs :
        (/\ p # q
         /\ procs[p].pc = "returned" /\ procs[p].path = "run"
         /\ procs[q].pc = "returned" /\ procs[q].path = "run"
         /\ procs[p].output.text # procs[q].output.text)
            => cache[ConcCacheFile].text
                   \in {WriteText(procs[p].output.text),
                        WriteText(procs[q].output.text)}

-----------------------------------------------------------------------------
(* Further properties of lint, checked under SpecMerge.                    *)

\* C11 (deduplication): the comments list of a lint result has no two
\* identical comments, also when two bindings report the same finding.
C11_NoDuplicates ==
    (LintedWithBindings /\ "comments" \in DOMAIN last.result[last.filename]) =>
        LET comments == last.result[last.filename]["comments"]
        IN \A i, j \in 1..Len(comments) :
               i # j => comments[i] # comments[j]

\* The programs of a tool entry that are not found when the configuration is
\* compiled: its command or some of its requirements.
NotFoundOf(data) ==
    programs_not_in_path(<<data["command"]>> \o Get(data, "requirements", <<>>))

\* Call c is a call of the binding of an entry with the missing programs
\* and the installation string given.
StubCall(c, missing_programs, installation_string) ==
    /\ c.linter.func = "missing_requirements_command"
    /\ c.linter.missing_programs = missing_programs
    /\ c.linter.installation_string = installation_string

\* C12 (missing prerequisite): for every tool entry of which the command or
\* a requirement was not found, a lint of a file whose key is one of the
\* entry's extensions calls the entry's binding once; the call returns
\* exactly one skipped message with the missing programs and the entry's
\* installation string and nothing else, launches no process, returns the
\* same whatever the cache holds and leaves the cache as it is.
C12_MissingPrerequisite ==
    [][LintStep =>
          \A k \in 1..Len(YamlConfigMerge) :
              LET data == YamlConfigMerge[k][2]
                  stubs == {i \in 1..Len(last'.calls) :
                               StubCall(last'.calls[i], NotFoundOf(data),
                                        data["installation"])}
              IN (/\ NotFoundOf(data) # <<>>
                  /\ InList(ConfigKey(last'.filename), data["extensions"]))
                 => /\ Cardinality(stubs) = 1
                    /\ \A i \in stubs :
                           LET c   == last'.calls[i]
                               out == c.output[last'.filename]
                           IN /\ DOMAIN out = {"skipped"}
                              /\ Len(out["skipped"]) = 1
                              /\ out["skipped"][1].programs = NotFoundOf(data)
                              /\ out["skipped"][1].installation
                                     = data["installation"]
                              /\ ~c.launched
                              /\ c.proc = NotRun
                              /\ Invoke(c.linter, last'.filename, last'.lines,
                                        NotRun, <<>>, srcMtime, clock).result
                                     = c.output
                              /\ Invoke(c.linter, last'.filename, last'.lines,
                                        NotRun, cache, srcMtime, clock).files
                                     = cache
                    /\ (\A i \in 1..Len(last'.calls) : i \in stubs)
                           => cache' = cache]_vars

\* C12's case: a file whose only binding misses its command was linted while
\* the cache held entries of other files.
C12_Witness ==
    /\ last.filename = FileM
    /\ Len(last.calls) = 1
    /\ StubCall(last.calls[1], << <<"m">> >>, "install m")
    /\ last.result[FileM]["skipped"][1].programs = << <<"m">> >>
    /\ cache # <<>>

-----------------------------------------------------------------------------
(* Properties of single functions, checked under SpecPure.                 *)

\* Some entry of the configuration file lacks a required field.
LacksRequired(yaml_config) ==
    \E i \in 1..Len(yaml_config) :
        \E field \in {"command", "filter", "extensions"} :
            field \notin DOMAIN yaml_config[i][2]

\* C13 (configuration error): parse_yaml_config fails, and returns no
\* ConfigMap, for every configuration with an entry that lacks command,
\* filter or extensions, whether or not the entry's programs are found.
C13_ConfigurationError ==
    (call.op = "parse_yaml_config" /\ LacksRequired(call.yaml_config))
        => call.raised

\* C14 (invocation hash): calculate_hash gives the same hash for the same
\* invocation, and different hashes for two invocations that differ in the
\* program or in the number, the order or the content of the arguments.
C14_HashInjective ==
    call.op = "calculate_hash" =>
        /\ call.again = call.hashes[1]
        /\ call.first # call.second => call.hashes[1] # call.hashes[2]

-----------------------------------------------------------------------------
(* Properties of lint and the ConfigMap, checked under SpecMerge.          *)

\* C15 (the ConfigMap is not mutated): after any sequence of calls of lint
\* the ConfigMap has the keys, and for every key the list of bindings, that
\* parse_yaml_config returned.
C15_ConfigNotMutated ==
    LET compiled == parse_yaml_config(YamlConfigMerge, RepoHome).config
    IN /\ DOMAIN config = DOMAIN compiled
       /\ \A key \in DOMAIN compiled : config[key] = compiled[key]

\* C15's case: a file whose key has no entry was linted, after files whose
\* key has one.
C15_Witness ==
    /\ last.filename = FileZ
    /\ ConfigKey(FileZ) \notin DOMAIN parse_yaml_config(YamlConfigMerge, RepoHome).config
    /\ "skipped" \in DOMAIN last.result[FileZ]
    /\ cache # <<>>

\* The lookup key of each source file of the model: the extension of a.p and
\* s/b.z, and the bare file name of M and s.d/c, which have no extension.
KeyExpected(filename) ==
    CASE filename = FileP -> <<".", "p">>
      [] filename = FileM -> <<"M">>
      [] filename = FileZ -> <<".", "z">>
      [] filename = FileD -> <<"c">>

\* C16 (key lookup, unknown key): lint looks the file up under its extension
\* if it has one and else under its bare name.  With an entry for the key
\* the bindings of that entry are called; without one the result is exactly
\* one skipped message that names the key, no binding is called and the
\* cache is left as it is.
C16_KeyLookup ==
    [][LintStep =>
          LET key == KeyExpected(last'.filename)
              out == last'.result[last'.filename]
          IN IF key \in DOMAIN config
             THEN /\ Len(last'.calls) = Len(config[key])
                  /\ \A i \in 1..Len(config[key]) :
                         last'.calls[i].linter = config[key][i]
             ELSE /\ DOMAIN out = {"skipped"}
                  /\ Len(out["skipped"]) = 1
                  /\ out["skipped"][1] = [kind |-> "no_linter", key |-> key]
                  /\ last'.calls = <<>>
                  /\ cache' = cache]_vars

\* C16's case: a file without extension and without entry for its name was
\* linted while the cache held entries; the message names the bare name.
C16_Witness ==
    /\ last.filename = FileD
    /\ last.result[FileD]["skipped"][1].key = <<"c">>
    /\ last.calls = <<>>
    /\ cache # <<>>

\* The lines of a text: what stands between two line ends, before the first
\* and behind the last.  Line n, from 1, starts behind the (n-1)th line end.
LineEnds(text) == {i \in 1..Len(text) : text[i] = LF}

LineOf(text, n) ==
    LET ends   == LineEnds(text)
        Before(i) == Cardinality({e \in ends : e < i})
        inside == {i \in 1..Len(text) : i \notin ends /\ Before(i) = n - 1}
    IN [j \in 1..Cardinality(inside) |->
           text[CHOOSE i \in inside :
                    Cardinality({h \in inside : h <= i}) = j]]

\* The places of a line where the filter pattern matches: the front part of
\* a finding, with a line number that is asked for if it has one, followed
\* by a message of one character at least.
MatchesAt(line, lines) ==
    {i \in 1..(Len(line) - 1) :
        /\ line[i].k = "head"
        /\ \/ line[i].line = <<>>
           \/ lines.none
           \/ \E n \in 1..Len(lines.list) : int(line[i].line) = lines.list[n]}

\* The numbers of the lines of a text the pattern matches.
MatchingLines(text, lines) ==
    {n \in 1..(Cardinality(LineEnds(text)) + 1) :
        MatchesAt(LineOf(text, n), lines) # {}}

\* The fields of the finding at place i of a line whose part was printed.
FieldsAt(line, i) ==
    {"message"}
        \cup (IF line[i].line # <<>> THEN {"line"} ELSE {})
        \cup (IF line[i].column # <<>> THEN {"column"} ELSE {})
        \cup (IF line[i].severity # <<>> THEN {"severity"} ELSE {})
        \cup (IF line[i].message_id # "" THEN {"message_id"} ELSE {})

\* C17 (parser count and order): for an output in which N lines match the
\* filter pattern lint_command returns N comments; comment k belongs to the
\* kth matching line: it has the message of that line, and it has exactly
\* the fields whose group matched there.
C17_ParserCountAndOrder ==
    call.op = "lint_command" =>
        LET matching == MatchingLines(call.output, call.lines)
            comments == call.result[FileP]["comments"]
        IN /\ DOMAIN call.result[FileP] = {"comments"}
           /\ Len(comments) = Cardinality(matching)
           /\ \A n \in matching :
                  LET k    == Cardinality({m \in matching : m <= n})
                      line == LineOf(call.output, n)
                      i    == CHOOSE h \in MatchesAt(line, call.lines) :
                                  \A j \in MatchesAt(line, call.lines) : h <= j
                  IN /\ DOMAIN comments[k] = FieldsAt(line, i)
                     /\ comments[k]["message"] = SubSeq(line, i + 1, Len(line))

\* C17's case: an output of two lines that both match, the first with all
\* the fields and the second with a line and a message only; and only lines
\* 1 are asked for, so that a third line would not match.
C17_Witness ==
    /\ call.op = "lint_command"
    /\ Cardinality(LineEnds(call.output)) = 1
    /\ MatchingLines(call.output, call.lines) = {1, 2}
    /\ Len(call.result[FileP]["comments"]) = 2
    /\ DOMAIN call.result[FileP]["comments"][1]
           = {"line", "column", "severity", "message_id", "message"}
    /\ DOMAIN call.result[FileP]["comments"][2] = {"message"}
    /\ ~call.lines.none

-----------------------------------------------------------------------------
(* Further properties of lint_command and the cache, checked under Spec    *)
(* and SpecConc.                                                           *)

\* C18 (line restriction and cache): a call of lint ran the process of a
\* binding and wrote the cache entry; the next call, for the same file and
\* with another line restriction, is served from that entry.  It returns the
\* comments that a call with its own restriction returns when it runs the
\* process and gets the same raw output.
C18_LinesIndependentOfCache ==
    [][\A i \in CommandCalls(last.calls) :
          (/\ LintStep
           /\ last'.filename = last.filename
           /\ last'.lines # last.lines
           /\ last.calls[i].path = "run"
           /\ last'.calls[i].path = "cached")
          => LET c == last'.calls[i]
             IN c.output
                    = lint_command(c.linter.name, c.linter.program,
                                   c.linter.arguments, c.linter.fatal_exits,
                                   c.linter.filter, last'.filename, last'.lines,
                                   [last.calls[i].proc EXCEPT !.code = 0],
                                   <<>>, srcMtime, clock).result]_vars

\* What the code keeps of C18: the same, for raw outputs without a carriage
\* return, which the cache file gives back as they were written.
C18_WithoutCarriageReturn ==
    [][\A i \in CommandCalls(last.calls) :
          (/\ LintStep
           /\ last'.filename = last.filename
           /\ last'.lines # last.lines
           /\ last.calls[i].path = "run"
           /\ last'.calls[i].path = "cached"
           /\ \A n \in 1..Len(last.calls[i].proc.output) :
                  last.calls[i].proc.output[n] # CR)
          => LET c == last'.calls[i]
             IN c.output
                    = lint_command(c.linter.name, c.linter.program,
                                   c.linter.arguments, c.linter.fatal_exits,
                                   c.linter.filter, last'.filename, last'.lines,
                                   [last.calls[i].proc EXCEPT !.code = 0],
                                   <<>>, srcMtime, clock).result]_vars

\* The texts a read of the cache file gives that come from a linter run on
\* the source file as it is now: the text held at the start if the file was
\* not modified since, and the output of every process that saves it or has
\* saved it and whose linter read the file after its last modification.
FreshTexts ==
    (IF srcMtime[FileP] = 0 THEN {ReadText(HeldBefore)} ELSE {})
        \cup {ReadText(WriteText(procs[q].output.text)) :
                 q \in {r \in DOMAIN procs : /\ procs[r].path = "run"
                                             /\ procs[r].pc \in {"write", "returned"}
                                             /\ ~procs[r].modified}}

\* C19 (cache freshness): when the test of get_output_from_cache finds the
\* cache entry valid, so that its text is returned, the text (a complete one
\* that is not empty) is the output of a linter run that read the source file's current
\* content, also when the file was modified between the run and the write
\* of the cache entry.
C19_CacheFresh ==
    [][\A p \in DOMAIN procs :
          (/\ procs[p].pc = "start"
           /\ procs'[p].pc = "read"
           /\ cache[ConcCacheFile].text # <<>>
           /\ ReadText(cache[ConcCacheFile].text)
                  \in {ReadText(t) : t \in CompleteTexts})
          => ReadText(cache[ConcCacheFile].text) \in FreshTexts]_vars

====
